---- MODULE Spec2Model ----
(***************************************************************************)
(* A model of the VEX IQ Python-B API stubs: the act / sense decorators    *)
(* (src/src/__vex_decor.py), the device classes that use them (Sonar,      *)
(* ColorSensor, DriveTrain), wait_for (src/src/vex/__init__.py) and the    *)
(* Open edX state-sequence grader (src/src/__vex/open_edx_grader.py).      *)
(*                                                                         *)
(* Python values are encoded uniformly as records [kind, v] with v a       *)
(* sequence, so that any two values can be compared:                       *)
(*   None      -> [kind |-> "none",   v |-> <<>>]                          *)
(*   a scalar  -> [kind |-> "scalar", v |-> <<x>>]                         *)
(*   a list    -> [kind |-> "list",   v |-> <<x1, ..., xn>>]               *)
(* Positional arguments (enum members, numbers, booleans) are strings.     *)
(***************************************************************************)
EXTENDS Integers, Sequences, FiniteSets, TLC

VARIABLES
    tables,       \* tables[d][op]: the dict getattr(d, "_" + op): key -> value
    interactive,  \* vex.interactive.ON
    call,         \* the most recent instrumented call
    outcome,      \* what that call did: returned / raised, printed, prompted
    script,       \* history: per key, the value last stored by set= and the reads since
    nsets,        \* history: number of set= calls made so far
    lst,          \* the content of the list object a program passes to several set=
    shared,       \* the table entries <<d, op, key>> bound to that list object
    tmpfiles,     \* the temporary files that exist
    module_globals, \* globals()["__SUBMISSION_FILE_TEST_RESULT__"] of the grader module
    pc,           \* where check_submission_str stands
    submission,   \* the submission being graded
    f_name,       \* f.name: the temporary file of the grading under way
    complaint_str, \* the local complaint_str of the grading under way
    verdict,      \* how the most recent call of check_submission_str ended
    harness,      \* a call of StateSeqGrader.__call__, and the copy _submission.py
    dev_a,        \* a constructed device
    dev_b,        \* another constructed device
    compared,     \* the most recent dev_a == dev_b, or hash(dev_a) and hash(dev_b)
    waiting,      \* a call of wait_for: its arguments, its position, its result
    fields,       \* fields[d]: the attributes a DriveTrain's setters are written to keep
    construction, \* a call of StateSeqGrader(...): the grader script, how it ended
    flows         \* the control flows of a program: where each stands in a read

senseVars == <<tables, interactive, call, outcome, script, nsets, lst, shared>>

graderVars ==
    <<tmpfiles, module_globals, pc, submission, f_name, complaint_str, verdict,
      harness>>

identVars == <<dev_a, dev_b, compared>>

vars ==
    <<senseVars, graderVars, identVars, waiting, fields, construction, flows>>

nonSenseVars ==
    <<graderVars, identVars, waiting, fields, construction, flows>>

nonGraderVars ==
    <<senseVars, identVars, waiting, fields, construction, flows>>

nonIdentVars ==
    <<senseVars, graderVars, waiting, fields, construction, flows>>

nonCtorVars ==
    <<senseVars, graderVars, identVars, waiting, fields, flows>>

nonFlowVars ==
    <<interactive, call, outcome, script, nsets, lst, shared, graderVars, identVars,
      waiting, fields, construction>>

nonWaitVars ==
    <<senseVars, graderVars, identVars, fields, construction, flows>>

----------------------------------------------------------------------------
(* Bounds of the model *)

\* longest scripted list stored through set=
MaxLen == 2
\* number of set= calls in one run
MaxSets == 2

----------------------------------------------------------------------------
(* Python values *)

NoneVal == [kind |-> "none", v |-> <<>>]
Scalar(x) == [kind |-> "scalar", v |-> <<x>>]
List(s) == [kind |-> "list", v |-> s]

Max(a, b) == IF a >= b THEN a ELSE b
Min(a, b) == IF a <= b THEN a ELSE b

\* seq[-n:] for n > 0
TailSlice(seq, n) == SubSeq(seq, Max(Len(seq) - n, 0) + 1, Len(seq))

\* seq[:n] for n > 0
HeadSlice(seq, n) == SubSeq(seq, 1, Min(n, Len(seq)))

\* zip(a, b): pairs up to the shorter length
Zip(a, b) == [i \in 1..Min(Len(a), Len(b)) |-> <<a[i], b[i]>>]

\* A dict is a sequence of <<key, value>> pairs in insertion order.
DictKeys(d) == [i \in 1..Len(d) |-> d[i][1]]

DictHas(d, k) == \E i \in 1..Len(d) : d[i][1] = k

DictGet(d, k) == d[CHOOSE i \in 1..Len(d) : d[i][1] = k][2]

\* d[k] = x
DictPut(d, k, x) ==
    IF DictHas(d, k)
    THEN [i \in 1..Len(d) |-> IF d[i][1] = k THEN <<k, x>> ELSE d[i]]
    ELSE Append(d, <<k, x>>)

\* d.update(pairs)
RECURSIVE DictUpdate(_, _)
DictUpdate(d, pairs) ==
    IF pairs = <<>> THEN d
    ELSE DictUpdate(DictPut(d, Head(pairs)[1], Head(pairs)[2]), Tail(pairs))

\* d.pop(k, None): the dict without k
DictWithout(d, k) == SelectSeq(d, LAMBDA p : p[1] # k)

----------------------------------------------------------------------------
(* The instrumented operations: getfullargspec of each wrapped function *)

Func(qual, name, args, defaults, hasDefaults) ==
    [qualname |-> qual, name |-> name, args |-> args,
     defaults |-> defaults, hasDefaults |-> hasDefaults]

Sonar_distance ==
    Func("Sonar.distance", "distance", <<"self", "unit">>, <<"MM">>, TRUE)

Sonar_is_object_detected ==
    Func("Sonar.is_object_detected", "is_object_detected", <<"self">>, <<>>, FALSE)

Sonar_set_maximum ==
    Func("Sonar.set_maximum", "set_maximum",
         <<"self", "distance", "distanceUnits">>, <<"MM">>, TRUE)

DriveTrain_drive ==
    Func("DriveTrain.drive", "drive", <<"self", "direction">>, <<"FORWARD">>, TRUE)

DriveTrain_drive_for ==
    Func("DriveTrain.drive_for", "drive_for",
         <<"self", "direction", "distance", "unit", "wait">>,
         <<"FORWARD", "200", "MM", "True">>, TRUE)

DriveTrain_turn ==
    Func("DriveTrain.turn", "turn", <<"self", "direction">>, <<"RIGHT">>, TRUE)

DriveTrain_turn_for ==
    Func("DriveTrain.turn_for", "turn_for",
         <<"self", "direction", "angle", "unit", "wait">>,
         <<"RIGHT", "90", "DEGREES", "True">>, TRUE)

DriveTrain_stop ==
    Func("DriveTrain.stop", "stop", <<"self">>, <<>>, FALSE)

DriveTrain_set_drive_velocity ==
    Func("DriveTrain.set_drive_velocity", "set_drive_velocity",
         <<"self", "velocity", "unit">>, <<"PERCENT">>, TRUE)

DriveTrain_set_turn_velocity ==
    Func("DriveTrain.set_turn_velocity", "set_turn_velocity",
         <<"self", "velocity", "unit">>, <<"PERCENT">>, TRUE)

DriveTrain_set_stopping ==
    Func("DriveTrain.set_stopping", "set_stopping",
         <<"self", "mode">>, <<"BRAKE">>, TRUE)

ColorSensor_set_light ==
    Func("ColorSensor.set_light", "set_light",
         <<"self", "brightness", "unit">>, <<"PERCENT">>, TRUE)

ColorSensor_led ==
    Func("ColorSensor.led", "led", <<"self", "state">>, <<>>, FALSE)

ColorSensor_grayscale ==
    Func("ColorSensor.grayscale", "grayscale", <<"self", "raw">>, <<"False">>, TRUE)

----------------------------------------------------------------------------
(* args_dict_from_func_and_given_args *)

ArgsOk(d) == [ok |-> TRUE, dict |-> d, exc |-> ""]
ArgsErr(e) == [ok |-> FALSE, dict |-> <<>>, exc |-> e]

\* a slip: the defaults are taken from the front of arg_spec.defaults
args_dict_front_defaults(func, given_args) ==
    LET arg_names == func.args
        n_defaults_to_use == Len(arg_names) - Len(given_args)
        args_dict == [i \in 1..Len(given_args) |-> <<arg_names[i], given_args[i]>>]
    IN  IF Len(given_args) > Len(arg_names) THEN ArgsErr("IndexError")
        ELSE IF n_defaults_to_use > 0
        THEN IF ~func.hasDefaults THEN ArgsErr("TypeError")
             ELSE ArgsOk(DictUpdate(args_dict,
                         Zip(TailSlice(arg_names, n_defaults_to_use),
                             HeadSlice(func.defaults, n_defaults_to_use))))
        ELSE ArgsOk(args_dict)

args_dict_from_func_and_given_args(func, given_args) ==
    LET arg_names == func.args
        n_defaults_to_use == Len(arg_names) - Len(given_args)
        args_dict == [i \in 1..Len(given_args) |-> <<arg_names[i], given_args[i]>>]
    IN  IF Len(given_args) > Len(arg_names) THEN ArgsErr("IndexError")
        ELSE IF n_defaults_to_use > 0
        THEN IF ~func.hasDefaults THEN ArgsErr("TypeError")
             ELSE ArgsOk(DictUpdate(args_dict,
                         Zip(TailSlice(arg_names, n_defaults_to_use),
                             TailSlice(func.defaults, n_defaults_to_use))))
        ELSE ArgsOk(args_dict)

----------------------------------------------------------------------------
(* What a call does, as seen by its caller and on the console *)

Returned(val, printed) ==
    [kind |-> "return", val |-> val, exc |-> "", printed |-> printed,
     prompted |-> FALSE]

Raised(exc) ==
    [kind |-> "raise", val |-> NoneVal, exc |-> exc, printed |-> "",
     prompted |-> FALSE]

Prompted(o) == [o EXCEPT !.prompted = TRUE]

NoOutcome ==
    [kind |-> "none", val |-> NoneVal, exc |-> "", printed |-> "",
     prompted |-> FALSE]

----------------------------------------------------------------------------
(* The bodies of the wrapped functions *)

\* Sonar.distance: assert unit in (MM, INCHES)
Sonar_distance_body(unit) ==
    IF unit \in {"MM", "INCHES"} THEN Returned(NoneVal, "")
    ELSE Raised("AssertionError")

\* DriveTrain.turn_for: assert unit is DEGREES
DriveTrain_turn_for_body(unit) ==
    IF unit = "DEGREES" THEN Returned(NoneVal, "")
    ELSE Raised("AssertionError")

\* what DriveTrain.__init__ leaves in the fields the setters are about;
\* the attribute stopping does not exist until something assigns it
DriveTrain_init_fields ==
    [drive_velocities |-> [u \in {} |-> ""], turn_velocities |-> [u \in {} |-> ""],
     stopping_mode |-> "None", stopping |-> "absent"]

\* DriveTrain.set_drive_velocity: self.drive_velocities[unit] = velocity
DriveTrain_set_drive_velocity_body(self, velocity, unit) ==
    [self EXCEPT !.drive_velocities =
        [u \in (DOMAIN @) \cup {unit} |-> IF u = unit THEN velocity ELSE @[u]]]

\* DriveTrain.set_turn_velocity: self.turn_velocities[unit] = velocity
DriveTrain_set_turn_velocity_body(self, velocity, unit) ==
    [self EXCEPT !.turn_velocities =
        [u \in (DOMAIN @) \cup {unit} |-> IF u = unit THEN velocity ELSE @[u]]]

\* DriveTrain.set_stopping: self.stopping = mode
DriveTrain_set_stopping_body(self, mode) == [self EXCEPT !.stopping = mode]

\* a slip: the body of Sonar.distance returns without its assertion
sensing_func_unchecked(func, args_dict) == Returned(NoneVal, "")

\* sensing_func(*given_args): Python binds the arguments as args_dict does
\* for every call that omits only parameters with defaults
sensing_func(func, args_dict) ==
    IF func.qualname = "Sonar.distance"
    THEN Sonar_distance_body(DictGet(args_dict, "unit"))
    ELSE Returned(NoneVal, "")

----------------------------------------------------------------------------
(* sense: decor_sensing_func *)

\* sensing_state_dict[key] = x
TablePut(t, key, x) ==
    [k \in (DOMAIN t) \cup {key} |-> IF k = key THEN x ELSE t[k]]

EmptyTable == [k \in {} |-> NoneVal]

\* json.loads(input(...)): the operator's line, parsed
json_loads(line) ==
    IF line = "10" THEN Returned(Scalar(10), "")
    ELSE Raised("JSONDecodeError")

\* a slip: the list is consumed from its end
read_scripted_from_end(value) ==
    IF value.kind = "list"
    THEN IF Len(value.v) = 0
         THEN [out |-> Returned(NoneVal, ""), store |-> value,
               rebound |-> FALSE, obj |-> value]
         ELSE [out |-> Returned(Scalar(value.v[Len(value.v)]), "SENSE"),
               store |-> List(SubSeq(value.v, 1, Len(value.v) - 1)),
               rebound |-> TRUE, obj |-> value]
    ELSE [out |-> Returned(value, "SENSE"), store |-> value,
          rebound |-> FALSE, obj |-> value]

\* a slip: a scalar is consumed like a one-element list
read_scripted_scalar_once(value) ==
    IF value.kind = "list"
    THEN IF Len(value.v) = 0
         THEN [out |-> Returned(NoneVal, ""), store |-> value,
               rebound |-> FALSE, obj |-> value]
         ELSE [out |-> Returned(Scalar(Head(value.v)), "SENSE"),
               store |-> List(Tail(value.v)), rebound |-> TRUE, obj |-> value]
    ELSE [out |-> Returned(value, "SENSE"), store |-> List(<<>>),
          rebound |-> TRUE, obj |-> value]

\* a slip: the head is removed from the stored list itself (value.pop(0))
read_scripted_pop_in_place(value) ==
    IF value.kind = "list"
    THEN IF Len(value.v) = 0
         THEN [out |-> Returned(NoneVal, ""), store |-> value,
               rebound |-> FALSE, obj |-> value]
         ELSE [out |-> Returned(Scalar(Head(value.v)), "SENSE"),
               store |-> List(Tail(value.v)),
               rebound |-> FALSE, obj |-> List(Tail(value.v))]
    ELSE [out |-> Returned(value, "SENSE"), store |-> value,
          rebound |-> FALSE, obj |-> value]

\* the key is in the table and holds value: out is what the read returns and
\* prints, store what the key holds afterwards, rebound whether the key was
\* assigned another object (value[1:] is a new list), and obj the state the
\* read leaves the object value in (the code never changes it in place)
read_scripted(value) ==
    IF value.kind = "list"
    THEN IF Len(value.v) = 0
         THEN [out |-> Returned(NoneVal, ""), store |-> value,
               rebound |-> FALSE, obj |-> value]
         ELSE [out |-> Returned(Scalar(Head(value.v)), "SENSE"),
               store |-> List(Tail(value.v)), rebound |-> TRUE, obj |-> value]
    ELSE [out |-> Returned(value, "SENSE"), store |-> value,
          rebound |-> FALSE, obj |-> value]

\* the argument tuple a call is filed under: tuple(args_dict.items()), self popped
input_arg_tuple(func, self, given) ==
    LET r == args_dict_from_func_and_given_args(func, <<self>> \o given)
    IN  DictWithout(r.dict, "self")

\* a slip: interactive.ON is consulted before the table
decor_sensing_func_prompt_first(func, self, given, set_, t, on, line) ==
    LET r == args_dict_from_func_and_given_args(func, <<self>> \o given)
        key == DictWithout(r.dict, "self")
        held == IF key \in DOMAIN t THEN t[key] ELSE NoneVal
    IN  IF ~r.ok THEN [table |-> t, out |-> Raised(r.exc), rebound |-> FALSE,
                       obj |-> held]
        ELSE IF set_ = NoneVal
        THEN IF on
             THEN [table |-> t, out |-> Prompted(json_loads(line)),
                   rebound |-> FALSE, obj |-> held]
             ELSE IF key \in DOMAIN t
             THEN LET s == read_scripted(t[key])
                  IN  [table |-> TablePut(t, key, s.store), out |-> s.out,
                       rebound |-> s.rebound, obj |-> s.obj]
             ELSE [table |-> t, out |-> sensing_func(func, r.dict),
                   rebound |-> FALSE, obj |-> held]
        ELSE [table |-> TablePut(t, key, set_), out |-> Returned(NoneVal, "SET"),
              rebound |-> TRUE, obj |-> held]

\* what a call of decor_sensing_func does: the table it leaves, its outcome,
\* whether it assigned the key, and the state it leaves the object in that
\* the key held before
SenseResult(t, out, rebound, obj) ==
    [table |-> t, out |-> out, rebound |-> rebound, obj |-> obj]

\* set_ is the keyword argument set (NoneVal when omitted), t the device's
\* table for this function, on is interactive.ON, line the console input
decor_sensing_func(func, self, given, set_, t, on, line) ==
    LET r == args_dict_from_func_and_given_args(func, <<self>> \o given)
        key == DictWithout(r.dict, "self")
        held == IF key \in DOMAIN t THEN t[key] ELSE NoneVal
    IN  IF ~r.ok THEN SenseResult(t, Raised(r.exc), FALSE, held)
        ELSE IF set_ = NoneVal
        THEN IF key \in DOMAIN t
             THEN LET s == read_scripted(t[key])
                  IN  SenseResult(TablePut(t, key, s.store), s.out, s.rebound, s.obj)
             ELSE IF on
             THEN SenseResult(t, Prompted(json_loads(line)), FALSE, held)
             ELSE SenseResult(t, sensing_func(func, r.dict), FALSE, held)
        ELSE SenseResult(TablePut(t, key, set_), Returned(NoneVal, "SET"), TRUE, held)

----------------------------------------------------------------------------
(* act: decor_actuating_func.  The wrapped body is never invoked. *)

\* the action event (qualified name, args_dict)
ActionEvent(func, args_dict) ==
    [kind |-> "event", v |-> <<func.qualname, args_dict>>]

decor_actuating_func(func, self, given) ==
    LET r == args_dict_from_func_and_given_args(func, <<self>> \o given)
    IN  IF ~r.ok THEN Raised(r.exc)
        ELSE Returned(ActionEvent(func, r.dict), "ACT")

----------------------------------------------------------------------------
(* The devices of a program and the calls it makes on them *)

\* the sonar a program reads and scripts
Sonars == {"sonar1"}

\* the devices a program actuates
DriveTrains == {"drivetrain1", "drivetrain2"}

ColorSensors == {"color1"}

\* the sensors of a program with several devices: sonar1 and sonar2 are two
\* instances constructed alike, each by Sonar(port) for the same port
SensorDevices == {"sonar1", "sonar2"} \cup ColorSensors

SensingFuncs == {Sonar_distance, Sonar_is_object_detected}

\* the sensing funcs of a device's class
SensingFuncsOf(d) ==
    IF d \in ColorSensors THEN {ColorSensor_grayscale} ELSE SensingFuncs

SenseOpNamesOf(d) == {f.name : f \in SensingFuncsOf(d)}

SonarActFuncs == {Sonar_set_maximum}

DriveTrainActFuncs ==
    {DriveTrain_drive, DriveTrain_drive_for, DriveTrain_turn,
     DriveTrain_turn_for, DriveTrain_stop}

DriveTrainSetterFuncs ==
    {DriveTrain_set_drive_velocity, DriveTrain_set_turn_velocity,
     DriveTrain_set_stopping}

ColorSensorActFuncs == {ColorSensor_set_light, ColorSensor_led}

SenseOpNames == {f.name : f \in SensingFuncs}

\* values a program passes for a parameter
ArgValues(func, name) ==
    CASE func.qualname = "Sonar.distance" -> {"MM", "INCHES", "DEGREES"}
      [] func.qualname = "DriveTrain.turn_for" /\ name = "unit" -> {"DEGREES", "TURNS"}
      [] func.qualname = "DriveTrain.drive_for" /\ name = "unit" -> {"MM", "INCHES"}
      [] func.qualname = "ColorSensor.set_light" /\ name = "unit" -> {"PERCENT"}
      [] name = "velocity" -> {"50", "80"}
      [] func.name \in {"set_drive_velocity", "set_turn_velocity"} /\ name = "unit" ->
            {"PERCENT", "RPM"}
      [] name = "mode" -> {"COAST", "BRAKE", "HOLD"}
      [] name = "raw" -> {"True"}
      [] name = "distanceUnits" -> {"MM", "INCHES"}
      [] name = "direction" -> {"FORWARD", "LEFT"}
      [] name = "distance" -> {"300"}
      [] name = "angle" -> {"45"}
      [] name = "wait" -> {"True", "False"}
      [] name = "brightness" -> {"50"}
      [] name = "state" -> {"True"}
      [] OTHER -> {}

\* the positional argument tuples (after self) of length k
RECURSIVE GivenOfLen(_, _)
GivenOfLen(func, k) ==
    IF k = 0 THEN {<<>>}
    ELSE {Append(g, x) : g \in GivenOfLen(func, k - 1),
                         x \in ArgValues(func, func.args[k + 1])}

\* a call may omit any number of trailing arguments
Givens(func) ==
    UNION {GivenOfLen(func, k) : k \in 0..(Len(func.args) - 1)}

\* a call that passes one argument too many
GivensTooMany(func) ==
    {Append(g, "extra") : g \in GivenOfLen(func, Len(func.args) - 1)}

Scalars == {10, 20}

\* the lists <<1, ..., n>>
AscList(n) == [i \in 1..n |-> i]

\* what a program stores through set=
SetValues == {Scalar(x) : x \in Scalars} \cup {List(AscList(n)) : n \in 0..MaxLen}

Inputs == {"10", "oops"}

\* the calls d.func(*given) of a program, with the key each is filed under
CallsOf(funcs) ==
    {[func |-> f, given |-> g, key |-> input_arg_tuple(f, "self", g)] :
        <<f, g>> \in UNION {{<<f, g>> : g \in Givens(f)} : f \in funcs}}

ActCallsOf(funcs) ==
    {[func |-> f, given |-> g] :
        <<f, g>> \in UNION {{<<f, g>> : g \in Givens(f) \cup GivensTooMany(f)} :
                            f \in funcs}}

SenseCalls == CallsOf(SensingFuncs)

DriveTrainActCalls == ActCallsOf(DriveTrainActFuncs)

DriveTrainSetterCalls == ActCallsOf(DriveTrainSetterFuncs)

ColorSensorActCalls == ActCallsOf(ColorSensorActFuncs)

\* the calls of a program with several devices: on a sonar distance(),
\* distance(DEGREES) and is_object_detected(), on a color sensor grayscale()
DeviceSenseCalls ==
    [d \in SensorDevices |->
        {c \in CallsOf(SensingFuncsOf(d)) : c.given \in {<<>>, <<"DEGREES">>}}]

\* and set_maximum(300) on a sonar, set_light(50) and led(True) on a color sensor
DeviceActCalls ==
    [d \in SensorDevices |->
        {c \in ActCallsOf(IF d \in ColorSensors THEN ColorSensorActFuncs
                           ELSE SonarActFuncs) : Len(c.given) = 1}]

\* what it stores through set=, besides its list object
DeviceSetValues == {Scalar(10), List(AscList(MaxLen))}

NoFunc == Func("", "", <<>>, <<>>, FALSE)

NoCall ==
    [kind |-> "none", dev |-> "", func |-> NoFunc, given |-> <<>>,
     set |-> NoneVal, key |-> <<>>]

----------------------------------------------------------------------------
(* The sensing and actuating calls of a program on its sonars *)

\* the reads of a scripted list are counted, up to one past its length
ReadCap(value) == IF value.kind = "list" THEN Len(value.v) + 1 ELSE 0

CountRead(h, key) ==
    IF key \in DOMAIN h
    THEN [h EXCEPT ![key].reads = Min(@ + 1, ReadCap(h[key].set))]
    ELSE h

SenseInit ==
    /\ tables = [d \in SensorDevices |-> [op \in SenseOpNamesOf(d) |-> EmptyTable]]
    /\ interactive = FALSE
    /\ call = NoCall
    /\ outcome = NoOutcome
    /\ script = [d \in SensorDevices |-> [op \in SenseOpNamesOf(d) |-> EmptyTable]]
    /\ nsets = 0
    /\ lst = AscList(MaxLen)
    /\ shared = {}

\* a slip: the dict is kept on the class, so every instance that has the
\* operation sees the table the call leaves
TablesAfter_on_class(tbls, e, t, aliases, obj) ==
    [d \in DOMAIN tbls |-> [op \in DOMAIN tbls[d] |->
        IF op = e[2] THEN t ELSE tbls[d][op]]]

\* the tables after a call on the entry e = <<d, op, key>> that leaves t as
\* d's table for op and obj as the state of the object e held before: every
\* other entry bound to that object (aliases) shows obj
TablesAfter(tbls, e, t, aliases, obj) ==
    IF aliases = {} THEN [tbls EXCEPT ![e[1]][e[2]] = t]
    ELSE [d \in DOMAIN tbls |-> [op \in DOMAIN tbls[d] |->
            IF d = e[1] /\ op = e[2]
            THEN [k \in DOMAIN t |->
                    IF k # e[3] /\ <<d, op, k>> \in aliases THEN obj ELSE t[k]]
            ELSE [k \in DOMAIN tbls[d][op] |->
                    IF <<d, op, k>> \in aliases THEN obj ELSE tbls[d][op][k]]]]

\* the other entries bound to the object that e is bound to
AliasesOf(e) == IF e \in shared THEN shared \ {e} ELSE {}

\* d.func(*given)
SenseRead(d, c) ==
    LET t == tables[d][c.func.name]
        e == <<d, c.func.name, c.key>>
        prompts == c.key \notin DOMAIN t /\ interactive
    IN  \E line \in (IF prompts THEN Inputs ELSE {""}) :
          LET res == decor_sensing_func(c.func, d, c.given, NoneVal, t,
                                        interactive, line)
          IN  /\ tables' = TablesAfter(tables, e, res.table, AliasesOf(e), res.obj)
              /\ lst' = IF e \in shared THEN res.obj.v ELSE lst
              /\ shared' = IF res.rebound THEN shared \ {e} ELSE shared
              /\ outcome' = res.out
              /\ call' = [kind |-> "sense", dev |-> d, func |-> c.func,
                          given |-> c.given, set |-> NoneVal, key |-> c.key]
              /\ script' = [script EXCEPT ![d][c.func.name] = CountRead(@, c.key)]
              /\ UNCHANGED <<interactive, nsets>>
              /\ UNCHANGED nonSenseVars

\* d.func(*given, set=x); is_lst tells that x is the program's list object
SenseStore(d, c, x, is_lst) ==
    LET t == tables[d][c.func.name]
        e == <<d, c.func.name, c.key>>
        res == decor_sensing_func(c.func, d, c.given, x, t, interactive, "")
    IN  /\ nsets < MaxSets
        /\ nsets' = nsets + 1
        /\ tables' = TablesAfter(tables, e, res.table, AliasesOf(e), res.obj)
        /\ lst' = IF e \in shared THEN res.obj.v ELSE lst
        /\ shared' = IF is_lst THEN shared \cup {e} ELSE shared \ {e}
        /\ outcome' = res.out
        /\ call' = [kind |-> "sense", dev |-> d, func |-> c.func,
                    given |-> c.given, set |-> x, key |-> c.key]
        /\ script' = [script EXCEPT ![d][c.func.name] =
                         TablePut(@, c.key, [set |-> x, reads |-> 0])]
        /\ UNCHANGED interactive
        /\ UNCHANGED nonSenseVars

\* d.func(*given, set=x) for a value x built for this call
SenseSet(d, c, x) == SenseStore(d, c, x, FALSE)

\* d.func(*given, set=lst) for the list object lst of the program
SenseSetObject(d, c) == SenseStore(d, c, List(lst), TRUE)

\* d.func(*given) for an actuating func: decor_actuating_func returns the
\* event without invoking the wrapped body, so no field of d is written
Act(d, c) ==
    /\ outcome' = decor_actuating_func(c.func, d, c.given)
    /\ call' = [kind |-> "act", dev |-> d, func |-> c.func,
                given |-> c.given, set |-> NoneVal, key |-> <<>>]
    /\ UNCHANGED <<tables, interactive, script, nsets, lst, shared>>
    /\ UNCHANGED nonSenseVars

\* the operator switches interactive mode
SetInteractive(on) ==
    /\ interactive # on
    /\ interactive' = on
    /\ UNCHANGED <<tables, call, outcome, script, nsets, lst, shared>>
    /\ UNCHANGED nonSenseVars

----------------------------------------------------------------------------
(* run_in_thread: two control flows that read the same sensors *)

\* the main flow and the thread started by run_in_thread
Flows == {"main", "thread"}

\* number of reads the two flows make together
MaxReads == 3

IdleFlow == [pc |-> "idle", dev |-> "", op |-> "", key |-> <<>>, value |-> NoneVal]

\* no thread started; delivered lists, in the order the reads returned, the
\* entry each read was made of and the value it returned
NoFlows ==
    [started |-> FALSE, reads |-> 0, delivered |-> <<>>,
     local |-> [t \in Flows |-> IdleFlow]]

FlowsIdle == flows = NoFlows

\* the lists the main flow scripts before it starts the thread
FlowSetValues == {List(AscList(n)) : n \in 1..MaxLen}

\* the reads the two flows make: distance() and is_object_detected()
FlowCalls == {c \in SenseCalls : c.given = <<>>}

\* run_in_thread(f): Thread(target=f, daemon=True).start()
run_in_thread ==
    /\ ~flows.started
    /\ flows' = [flows EXCEPT !.started = TRUE]
    /\ UNCHANGED tables
    /\ UNCHANGED nonFlowVars

\* a flow enters d.func(*given) and finds the key in the table:
\* value = sensing_state_dict.get(input_arg_tuple).  The interpreter may
\* switch flows before the statements that follow.
FlowLoad(t, d, c) ==
    /\ flows.started
    /\ flows.local[t].pc = "idle"
    /\ flows.reads < MaxReads
    /\ c.key \in DOMAIN tables[d][c.func.name]
    /\ flows' = [flows EXCEPT
                     !.reads = @ + 1,
                     !.local[t] = [pc |-> "loaded", dev |-> d, op |-> c.func.name,
                                   key |-> c.key,
                                   value |-> tables[d][c.func.name][c.key]]]
    /\ UNCHANGED tables
    /\ UNCHANGED nonFlowVars

\* the flow goes on with the value it loaded: return_value = value[0],
\* sensing_state_dict[input_arg_tuple] = value[1:], print, return
FlowStore(t) ==
    LET l == flows.local[t]
        s == read_scripted(l.value)
    IN  /\ l.pc = "loaded"
        /\ tables' = IF s.rebound
                      THEN [tables EXCEPT ![l.dev][l.op] = TablePut(@, l.key, s.store)]
                      ELSE tables
        /\ flows' = [flows EXCEPT
                         !.delivered = Append(@, [dev |-> l.dev, op |-> l.op,
                                                  key |-> l.key, val |-> s.out.val]),
                         !.local[t] = IdleFlow]
        /\ UNCHANGED nonFlowVars

\* the main flow scripts its sonar before it starts the thread
FlowScript(d, c, x) == ~flows.started /\ SenseSet(d, c, x)

FlowNext ==
    \/ \E d \in Sonars, c \in FlowCalls, x \in FlowSetValues : FlowScript(d, c, x)
    \/ run_in_thread
    \/ \E t \in Flows, d \in Sonars, c \in FlowCalls : FlowLoad(t, d, c)
    \/ \E t \in Flows : FlowStore(t)

----------------------------------------------------------------------------
(* StateSeqGrader.check_submission_str *)

\* what the embedded test routine does with a submission
Submissions ==
    {[kind |-> "true", msg |-> ""], [kind |-> "false", msg |-> ""],
     [kind |-> "raise", msg |-> "division by zero"],
     [kind |-> "raise", msg |-> "name 'robot' is not defined"]}

NoSubmission == [kind |-> "none", msg |-> ""]

\* the names NamedTemporaryFile can give
TmpNames == {"tmpa", "tmpb"}

Unbound == "unbound"

NoVerdict == [kind |-> "none", val |-> "", exc |-> "", sub |-> NoSubmission]

\* safe_exec of the augmented module: the result binding lands in the shared
\* globals when the test routine returns; nothing is bound when it raises
safe_exec(sub, globals_) ==
    IF sub.kind = "raise"
    THEN [raised |-> TRUE, err |-> sub.msg, globals |-> globals_]
    ELSE [raised |-> FALSE, err |-> "",
          globals |-> IF sub.kind = "true" THEN "True" ELSE "False"]

\* a slip: the file is removed at the end of the try block, not in a finally
os_remove_unless_raised(files, name, raised) ==
    IF raised THEN files ELSE files \ {name}

\* finally: os.remove(path=f.name), whether safe_exec raised or not
os_remove(files, name, raised) == files \ {name}

\* the last statement: complaint_str is computed anew from globals()
return_complaint_str(globals_, sub) ==
    IF globals_ = Unbound
    THEN [kind |-> "raise", val |-> "", exc |-> "KeyError", sub |-> sub]
    ELSE [kind |-> "return",
          val |-> IF globals_ = "True" THEN "None" ELSE "*** INCORRECT ***",
          exc |-> "", sub |-> sub]

\* __call__ has not been called, and no _submission.py lies next to the script
NoHarness ==
    [running |-> FALSE, submission_only |-> FALSE, copied |-> FALSE, ended |-> "none"]

GraderIdle ==
    /\ tmpfiles = {}
    /\ module_globals = Unbound
    /\ pc = "idle"
    /\ submission = NoSubmission
    /\ f_name = ""
    /\ complaint_str = ""
    /\ verdict = NoVerdict
    /\ harness = NoHarness

\* with NamedTemporaryFile(delete=False) as f: f.write(submission_str)
WriteSubmission(sub, name) ==
    /\ pc = "idle"
    /\ name \notin tmpfiles
    /\ tmpfiles' = tmpfiles \cup {name}
    /\ f_name' = name
    /\ submission' = sub
    /\ complaint_str' = ""
    /\ pc' = "written"
    /\ UNCHANGED <<module_globals, verdict, harness>>
    /\ UNCHANGED nonGraderVars

\* try: safe_exec(...) except Exception as err: ... finally: os.remove(...)
ExecSubmission ==
    /\ pc = "written"
    /\ LET r == safe_exec(submission, module_globals)
       IN  /\ module_globals' = r.globals
           /\ complaint_str' = IF r.raised THEN r.err ELSE complaint_str
           /\ tmpfiles' = os_remove(tmpfiles, f_name, r.raised)
    /\ pc' = "executed"
    /\ UNCHANGED <<submission, f_name, verdict, harness>>
    /\ UNCHANGED nonGraderVars

\* complaint_str = None if globals()[...] else '*** INCORRECT ***'; return
ReturnVerdict ==
    /\ pc = "executed"
    /\ verdict' = return_complaint_str(module_globals, submission)
    /\ pc' = "idle"
    /\ UNCHANGED <<tmpfiles, module_globals, submission, f_name, complaint_str,
                   harness>>
    /\ UNCHANGED nonGraderVars

\* __call__ up to the harness: copyfile(src=submission_file_path,
\* dst='_submission.py'), then run(...) or jailedgrader.main(...) is entered
CallCopy(submission_only) ==
    /\ ~harness.running
    /\ pc = "idle"
    /\ harness' = [running |-> TRUE, submission_only |-> submission_only,
                   copied |-> TRUE, ended |-> "none"]
    /\ UNCHANGED <<tmpfiles, module_globals, pc, submission, f_name, complaint_str,
                   verdict>>
    /\ UNCHANGED nonGraderVars

\* the last statement of __call__, os.remove(path='_submission.py'): it is
\* reached when the harness returned, and skipped when the harness raised
call_os_remove(copied, raised) == IF raised THEN copied ELSE FALSE

\* __call__ from the harness on: run(...) or main(...) returns or raises
\* (the harness is outside the repository: either can happen), then the copy
\* is removed if the statement is reached
CallEnd(raised) ==
    /\ harness.running
    /\ pc = "idle"
    /\ harness' = [harness EXCEPT
                       !.running = FALSE,
                       !.copied = call_os_remove(harness.copied, raised),
                       !.ended = IF raised THEN "raise" ELSE "return"]
    /\ UNCHANGED <<tmpfiles, module_globals, pc, submission, f_name, complaint_str,
                   verdict>>
    /\ UNCHANGED nonGraderVars

GraderNext ==
    \/ \E sub \in Submissions, name \in TmpNames : WriteSubmission(sub, name)
    \/ ExecSubmission
    \/ ReturnVerdict
    \/ \E submission_only \in BOOLEAN : CallCopy(submission_only)
    \/ \E raised \in BOOLEAN : CallEnd(raised)

----------------------------------------------------------------------------
(* StateSeqGrader.__init__ *)

\* longest grader script, in top-level statements
MaxStmts == 2

\* the argument lists of a call: each argument a lambda or another expression
CallArgs ==
    {<<>>, <<"Lambda">>, <<"Name">>, <<"Lambda", "Lambda">>, <<"Lambda", "Name">>,
     <<"Name", "Lambda">>}

\* top-level statements of a grader script: a statement that is no Assign,
\* an Assign to another name, an Assign whose first target is not a Name,
\* an Assign of a constant to grader, an Assign of a call to grader
Statements ==
    {[kind |-> "Expr", target |-> "", value |-> "", args |-> <<>>],
     [kind |-> "Assign", target |-> "other", value |-> "Constant", args |-> <<>>],
     [kind |-> "Assign", target |-> "Subscript", value |-> "Constant", args |-> <<>>],
     [kind |-> "Assign", target |-> "grader", value |-> "Constant", args |-> <<>>]}
    \cup {[kind |-> "Assign", target |-> "grader", value |-> "Call", args |-> a] :
              a \in CallArgs}

RECURSIVE ScriptsOfLen(_)
ScriptsOfLen(n) ==
    IF n = 0 THEN {<<>>}
    ELSE {Append(b, i) : b \in ScriptsOfLen(n - 1), i \in Statements}

\* the script holds at least the statement that calls StateSeqGrader
GraderScripts == UNION {ScriptsOfLen(n) : n \in 1..MaxStmts}

\* next(i for i in self.module.body
\*      if isinstance(i, Assign) and i.targets[0].id == 'grader')
RECURSIVE grader_assignment(_)
grader_assignment(body) ==
    IF body = <<>> THEN [exc |-> "StopIteration", stmt |-> <<>>]
    ELSE LET i == Head(body)
         IN  IF i.kind # "Assign" THEN grader_assignment(Tail(body))
             ELSE IF i.target = "Subscript"
             THEN [exc |-> "AttributeError", stmt |-> <<>>]
             ELSE IF i.target = "grader" THEN [exc |-> "", stmt |-> <<i>>]
             ELSE grader_assignment(Tail(body))

\* the Assign appended to the stored tree: __SUBMISSION_FILE_TEST_FUNC__ = lambda
TestFuncBinding ==
    [kind |-> "Assign", target |-> "__SUBMISSION_FILE_TEST_FUNC__",
     value |-> "Lambda", args |-> <<>>]

CtorOk(module) == [kind |-> "return", exc |-> "", module |-> module]
CtorRaised(exc) == [kind |-> "raise", exc |-> exc, module |-> <<>>]

\* StateSeqGrader.__init__ on the script body: how it ends, self.module
StateSeqGrader_init(body) ==
    LET found == grader_assignment(body)
        stmt == found.stmt[1]
    IN  IF found.exc # "" THEN CtorRaised(found.exc)
        ELSE IF stmt.value # "Call" THEN CtorRaised("AttributeError")
        ELSE IF stmt.args = <<>> THEN CtorRaised("IndexError")
        ELSE IF stmt.args[1] # "Lambda" THEN CtorRaised("AssertionError")
        ELSE CtorOk(Append(body, TestFuncBinding))

NoConstruction == [script |-> <<>>, pc |-> "none", result |-> CtorRaised("")]

CtorIdle == construction = NoConstruction

\* a grader script is about to construct its grader
CtorInit ==
    construction \in [script : GraderScripts, pc : {"called"},
                      result : {CtorRaised("")}]

\* grader = StateSeqGrader(...) in the grader script
Construct ==
    /\ construction.pc = "called"
    /\ construction' = [construction EXCEPT
                            !.pc = "done",
                            !.result = StateSeqGrader_init(construction.script)]
    /\ UNCHANGED nonCtorVars

CtorNext == Construct

----------------------------------------------------------------------------
(* Device identity: __eq__ and __hash__ *)

Ports == {1, 2}

\* Motor(port)
Motors == {[kind |-> "Motor", port |-> p] : p \in Ports}

\* ColorSensor(index, is_grayscale, proximity)
ColorSensorConfigs ==
    {[kind |-> "ColorSensor", port |-> p, is_grayscale |-> g,
      proximity_threshold |-> t] :
        p \in Ports, g \in BOOLEAN, t \in {700, 500}}

\* Sonar(index)
SonarConfigs == {[kind |-> "Sonar", port |-> p] : p \in Ports}

\* DriveTrain(left_motor, right_motor, wheel_base, track_width, length_unit,
\* gear_ratio)
DriveTrainConfigs ==
    {[kind |-> "DriveTrain", left_motor |-> l, right_motor |-> r,
      wheel_base |-> w, track_width |-> t, length_unit |-> u,
      gear_ratio |-> g] :
        l \in Motors, r \in Motors, w \in {200, 100}, t \in {176, 100},
        u \in {"MM", "INCHES"}, g \in {1, 2}}

DeviceConfigs == ColorSensorConfigs \cup SonarConfigs \cup DriveTrainConfigs

NoDevice == [kind |-> "none"]

HashOk(h) == [kind |-> "return", val |-> h, exc |-> ""]
HashRaised(exc) == [kind |-> "raise", val |-> 0, exc |-> exc]

\* hash of a bool, of an int, of an enum member
BoolHash(b) == IF b THEN 1 ELSE 0
IntHash(n) == n
EnumHash(u) == IF u = "MM" THEN 7001 ELSE 7002

\* hash of a tuple: the hashes of its elements mixed in order, here on 16 bits
RECURSIVE TupleHashFrom(_, _)
TupleHashFrom(h, hashes) ==
    IF hashes = <<>> THEN h
    ELSE TupleHashFrom((h * 31 + Head(hashes)) % 65536, Tail(hashes))

TupleHash(hashes) == TupleHashFrom(Len(hashes), hashes)

\* the abstract device's structural equality and hash, for a Motor
Motor_eq(self, other) == other.kind = "Motor" /\ other.port = self.port
Motor_hash(self) == IntHash(self.port)

\* the abstract device's structural equality, which Sonar does not override
Device_eq(self, other) == other.kind = self.kind /\ other.port = self.port

ColorSensor_eq(self, other) ==
    /\ other.kind = "ColorSensor"
    /\ other.port = self.port
    /\ other.is_grayscale = self.is_grayscale
    /\ other.proximity_threshold = self.proximity_threshold

ColorSensor_hash(self) ==
    HashOk(TupleHash(<<IntHash(self.port), BoolHash(self.is_grayscale),
                       IntHash(self.proximity_threshold)>>))

\* raise hash(self.port): an int is raised, which is a TypeError
Sonar_hash(self) == HashRaised("TypeError")

DriveTrain_eq(self, other) ==
    /\ other.kind = "DriveTrain"
    /\ Motor_eq(other.left_motor, self.left_motor)
    /\ Motor_eq(other.right_motor, self.right_motor)
    /\ other.wheel_base = self.wheel_base
    /\ other.track_width = self.track_width
    /\ other.length_unit = self.length_unit
    /\ other.gear_ratio = self.gear_ratio

DriveTrain_hash(self) ==
    HashOk(TupleHash(<<Motor_hash(self.left_motor), Motor_hash(self.right_motor),
                       IntHash(self.wheel_base), IntHash(self.track_width),
                       EnumHash(self.length_unit), IntHash(self.gear_ratio)>>))

\* a == b
PyEq(a, b) ==
    CASE a.kind = "ColorSensor" -> ColorSensor_eq(a, b)
      [] a.kind = "DriveTrain" -> DriveTrain_eq(a, b)
      [] OTHER -> Device_eq(a, b)

\* hash(a)
PyHash(a) ==
    CASE a.kind = "ColorSensor" -> ColorSensor_hash(a)
      [] a.kind = "DriveTrain" -> DriveTrain_hash(a)
      [] OTHER -> Sonar_hash(a)

NoCompare ==
    [op |-> "none", eq |-> FALSE, hash_a |-> HashOk(0), hash_b |-> HashOk(0)]

IdentIdle ==
    /\ dev_a = NoDevice
    /\ dev_b = NoDevice
    /\ compared = NoCompare

\* two devices as a program constructs them
IdentInit ==
    /\ dev_a \in DeviceConfigs
    /\ dev_b \in DeviceConfigs
    /\ compared = NoCompare

\* dev_a == dev_b
Compare ==
    /\ dev_a # NoDevice
    /\ compared' = [op |-> "eq", eq |-> PyEq(dev_a, dev_b),
                    hash_a |-> HashOk(0), hash_b |-> HashOk(0)]
    /\ UNCHANGED <<dev_a, dev_b>>
    /\ UNCHANGED nonIdentVars

\* hash(dev_a), hash(dev_b)
HashBoth ==
    /\ dev_a # NoDevice
    /\ compared' = [op |-> "hash", eq |-> FALSE,
                    hash_a |-> PyHash(dev_a), hash_b |-> PyHash(dev_b)]
    /\ UNCHANGED <<dev_a, dev_b>>
    /\ UNCHANGED nonIdentVars

IdentNext == Compare \/ HashBoth

----------------------------------------------------------------------------
(* wait_for *)

\* the polls a func is described for: func[i] is what the i-th call of func()
\* returns, the last one standing for every later call
MaxPolls == 2

RECURSIVE BoolSeqs(_)
BoolSeqs(n) ==
    IF n = 0 THEN {<<>>}
    ELSE {Append(q, x) : q \in BoolSeqs(n - 1), x \in BOOLEAN}

WaitFuncs == UNION {BoolSeqs(n) : n \in 1..MaxPolls}

\* timeout: <<>> is None, <<n>> is n seconds
Timeouts == {<<>>, <<1>>, <<5>>}

CheckPeriods == {0, 1}

WaitIdle ==
    waiting = [func |-> <<>>, value |-> TRUE, timeout |-> <<>>, check_period |-> 0,
               pc |-> "none", polls |-> 0, ret |-> "None"]

\* wait_for(func, value, timeout, check_period) has been called
WaitInit ==
    waiting \in [func : WaitFuncs, value : BOOLEAN, timeout : Timeouts,
                 check_period : CheckPeriods, pc : {"called"}, polls : {0},
                 ret : {"None"}]

\* the body of wait_for is its docstring: it returns None without calling func
wait_for ==
    /\ waiting.pc = "called"
    /\ waiting' = [waiting EXCEPT !.pc = "returned", !.ret = "None"]
    /\ UNCHANGED nonWaitVars

WaitNext == wait_for

\* DriveTrain.__init__: the fields of each drivetrain of the program
FieldsInit == fields = [d \in DriveTrains |-> DriveTrain_init_fields]

Init == SenseInit /\ GraderIdle /\ IdentIdle /\ WaitIdle /\ FieldsInit /\ CtorIdle /\ FlowsIdle

Next ==
    \/ \E d \in Sonars, c \in SenseCalls : SenseRead(d, c)
    \/ \E d \in Sonars, c \in SenseCalls, x \in SetValues : SenseSet(d, c, x)
    \/ \E on \in BOOLEAN : SetInteractive(on)

\* a program that scripts and reads its sonar
Spec == Init /\ [][Next]_vars

ActNext ==
    \/ \E d \in DriveTrains, c \in DriveTrainActCalls : Act(d, c)
    \/ \E d \in DriveTrains, c \in DriveTrainSetterCalls : Act(d, c)
    \/ \E d \in ColorSensors, c \in ColorSensorActCalls : Act(d, c)

\* a program that actuates its drivetrain and its color sensor
ActSpec == Init /\ [][ActNext]_vars

DeviceNext ==
    \/ \E d \in SensorDevices : \E c \in DeviceSenseCalls[d] : SenseRead(d, c)
    \/ \E d \in SensorDevices : \E c \in DeviceSenseCalls[d], x \in DeviceSetValues :
          SenseSet(d, c, x)
    \/ \E d \in SensorDevices : \E c \in DeviceSenseCalls[d] : SenseSetObject(d, c)
    \/ \E d \in SensorDevices : \E c \in DeviceActCalls[d] : Act(d, c)
    \/ \E on \in BOOLEAN : SetInteractive(on)

\* a program that scripts, reads and actuates two sonars and a color sensor
DeviceSpec == Init /\ [][DeviceNext]_vars

\* a program that scripts its sonar, starts a thread, and reads in both flows
FlowSpec == Init /\ [][FlowNext]_vars

\* a grader that checks one submission after another
GraderSpec == Init /\ [][GraderNext]_vars

\* a program that compares and hashes two devices
IdentSpecInit == SenseInit /\ GraderIdle /\ IdentInit /\ WaitIdle /\ FieldsInit /\ CtorIdle /\ FlowsIdle

IdentSpec == IdentSpecInit /\ [][IdentNext]_vars

\* a grader script that constructs its grader
CtorSpecInit ==
    SenseInit /\ GraderIdle /\ IdentIdle /\ WaitIdle /\ FieldsInit /\ CtorInit
        /\ FlowsIdle

CtorSpec == CtorSpecInit /\ [][CtorNext]_vars

\* a program that calls wait_for
WaitSpecInit == SenseInit /\ GraderIdle /\ IdentIdle /\ WaitInit /\ FieldsInit /\ CtorIdle /\ FlowsIdle

WaitSpec == WaitSpecInit /\ [][WaitNext]_vars

----------------------------------------------------------------------------
(* Scripted responses *)

\* the most recent call is a read, and its key was scripted by a set=
ReadOfScripted ==
    /\ call.kind = "sense"
    /\ call.set = NoneVal
    /\ call.key \in DOMAIN script[call.dev][call.func.name]

Scripted == script[call.dev][call.func.name][call.key]

\* C1: after set= stores the list <<v1, ..., vn>>, the k-th read with the same
\* argument tuple returns vk for k <= n, and every later read returns None.
ScriptedListReadInOrder ==
    (ReadOfScripted /\ Scripted.set.kind = "list") =>
        /\ outcome.kind = "return"
        /\ outcome.val = IF Scripted.reads <= Len(Scripted.set.v)
                         THEN Scalar(Scripted.set.v[Scripted.reads])
                         ELSE NoneVal

\* a list of two values has been read three times: the last read found it empty
ScriptedListExhausted ==
    /\ ReadOfScripted
    /\ Scripted.set.kind = "list"
    /\ Len(Scripted.set.v) >= 2
    /\ Scripted.reads = Len(Scripted.set.v) + 1
    /\ outcome.val = NoneVal

\* C2: after set= stores a scalar v, every read with the same argument tuple
\* returns v, and the stored scalar stays in the table until the next set=.
ScriptedScalarRepeats ==
    /\ \A d \in Sonars, op \in SenseOpNames :
         \A key \in DOMAIN script[d][op] :
            script[d][op][key].set.kind = "scalar" =>
               /\ key \in DOMAIN tables[d][op]
               /\ tables[d][op][key] = script[d][op][key].set
    /\ (ReadOfScripted /\ Scripted.set.kind = "scalar") =>
          /\ outcome.kind = "return"
          /\ outcome.val = Scripted.set

\* a scripted scalar has been read, after an earlier scalar for the same key
\* had been replaced
ScriptedScalarRead ==
    /\ ReadOfScripted
    /\ Scripted.set.kind = "scalar"
    /\ outcome.val = Scripted.set
    /\ nsets >= 2
    /\ \A op \in SenseOpNames :
         DOMAIN tables[call.dev][op] \subseteq {call.key}

----------------------------------------------------------------------------
(* Reads without a scripted response *)

\* the step is a sensing read: call' is the read and outcome' what it did
ReadStep ==
    /\ call'.kind = "sense"
    /\ call'.set = NoneVal
    /\ nsets' = nsets
    /\ interactive' = interactive

\* the device held an entry for the argument tuple when the call was made
HeldBefore == call'.key \in DOMAIN tables[call'.dev][call'.func.name]

HeldAfter == call'.key \in DOMAIN tables'[call'.dev][call'.func.name]

\* the step is a read with no scripted response, made with interactive mode off
DefaultReadStep == ReadStep /\ ~HeldBefore /\ ~interactive

\* the body of the operation rejects the arguments of the call
BodyRejects(c) ==
    /\ c.func = Sonar_distance
    /\ DictGet(c.key, "unit") \notin {"MM", "INCHES"}

\* C12 as stated: every sensing read with no scripted response for its
\* argument tuple, made with interactive mode off, returns None and leaves
\* the table without an entry for the tuple.
DefaultReadReturnsNone ==
    [][DefaultReadStep =>
          /\ outcome'.kind = "return"
          /\ outcome'.val = NoneVal
          /\ ~HeldAfter]_vars

\* C12, amended: such a read returns None unless the body of the operation
\* rejects the arguments (Sonar.distance with a unit other than MM and
\* INCHES), in which case it fails with an assertion failure; either way the
\* table is left without an entry for the tuple.
DefaultReadReturnsNoneOrAsserts ==
    [][DefaultReadStep =>
          /\ IF BodyRejects(call')
             THEN outcome'.kind = "raise" /\ outcome'.exc = "AssertionError"
             ELSE outcome'.kind = "return" /\ outcome'.val = NoneVal
          /\ ~HeldAfter
          /\ tables' = tables]_vars

\* distance(INCHES) has returned None by default, interactive mode off, while
\* the sonar holds a scripted response for another argument tuple
DefaultReadDone ==
    /\ call.kind = "sense"
    /\ call.set = NoneVal
    /\ call.func = Sonar_distance
    /\ call.given = <<"INCHES">>
    /\ ~interactive
    /\ ~outcome.prompted
    /\ outcome.kind = "return"
    /\ outcome.val = NoneVal
    /\ call.key \notin DOMAIN tables[call.dev]["distance"]
    /\ DOMAIN tables[call.dev]["distance"] # {}

----------------------------------------------------------------------------
(* What changes a scripted-response table *)

\* the step is a call, or a switch of interactive mode, that supplies no set
NoSetStep == nsets' = nsets

\* the step is a read of the entry (d, op, k)
ReadStepOf(d, op, k) ==
    /\ ReadStep
    /\ call'.dev = d
    /\ call'.func.name = op
    /\ call'.key = k

\* C15 as stated: between two calls that supply set, no sensing read and no
\* actuation call changes any entry of a device's table.
OnlySetChangesTable == [][NoSetStep => tables' = tables]_vars

\* C15, amended: a call that supplies no set neither adds nor removes an
\* entry, and changes none but the entry a read is made of, that one only
\* from a non-empty list to the list without its head; the list object the
\* program passed to set stays as it was.
OnlySetOrConsumptionChangesTable ==
    [][NoSetStep =>
          /\ lst' = lst
          /\ \A d \in SensorDevices : \A op \in SenseOpNamesOf(d) :
                /\ DOMAIN tables'[d][op] = DOMAIN tables[d][op]
                /\ \A k \in DOMAIN tables[d][op] :
                      \/ tables'[d][op][k] = tables[d][op][k]
                      \/ /\ ReadStepOf(d, op, k)
                         /\ tables[d][op][k].kind = "list"
                         /\ tables[d][op][k].v # <<>>
                         /\ tables'[d][op][k] = List(Tail(tables[d][op][k].v))]_vars

\* a read has taken the head of the list a device was given, while another
\* entry is still bound to that same list object, whole
ReadBesideSharedList ==
    /\ ReadOfScripted
    /\ outcome.val = Scalar(Head(lst))
    /\ tables[call.dev][call.func.name][call.key] = List(Tail(lst))
    /\ <<call.dev, call.func.name, call.key>> \notin shared
    /\ \E e \in shared : tables[e[1]][e[2]][e[3]] = List(lst)

\* the step is a sensing call that supplies set: call' is the call
SetStep == nsets' = nsets + 1

\* C18: a sensing call with set=x on device d, operation op and argument
\* tuple t returns None and leaves x stored for (d, op, t), whatever was
\* stored there; every entry for another tuple, another operation of d or
\* another device instance, one constructed alike or given the same list
\* object included, is as before, and so is that list object.
SetReplacesOnlyItsEntry ==
    [][SetStep =>
          LET d == call'.dev
              op == call'.func.name
              t == call'.key
          IN  /\ call'.set # NoneVal
              /\ outcome'.kind = "return"
              /\ outcome'.val = NoneVal
              /\ t \in DOMAIN tables'[d][op]
              /\ tables'[d][op][t] = call'.set
              /\ lst' = lst
              /\ \A d2 \in SensorDevices : \A op2 \in SenseOpNamesOf(d2) :
                    /\ DOMAIN tables'[d2][op2] =
                          DOMAIN tables[d2][op2]
                              \cup (IF d2 = d /\ op2 = op THEN {t} ELSE {})
                    /\ \A t2 \in DOMAIN tables[d2][op2] :
                          <<d2, op2, t2>> # <<d, op, t>> =>
                              tables'[d2][op2][t2] = tables[d2][op2][t2]]_vars

\* sonar1 has been given, for distance(), the list object that sonar2, an
\* instance constructed alike, holds for distance() too
SameListSetOnBothSonars ==
    /\ call.kind = "sense"
    /\ call.set = List(lst)
    /\ call.dev = "sonar1"
    /\ call.func = Sonar_distance
    /\ <<"sonar1", "distance", call.key>> \in shared
    /\ <<"sonar2", "distance", call.key>> \in shared
    /\ tables["sonar2"]["distance"][call.key] = List(lst)

----------------------------------------------------------------------------
(* The console log *)

\* the step is an instrumented call that returned to its caller without
\* asking the operator: call' is the call and outcome' what it did
ReturnedCallStep ==
    /\ interactive' = interactive
    /\ call'.kind \in {"act", "sense"}
    /\ outcome'.kind = "return"
    /\ ~outcome'.prompted

\* the log line a call is to emit
LogTag(c) ==
    CASE c.kind = "act" -> "ACT"
      [] c.kind = "sense" /\ c.set = NoneVal -> "SENSE"
      [] OTHER -> "SET"

\* C14: every instrumented call emits its log line, ACT for an actuation,
\* SENSE for a sensing read wherever its value came from, SET for a sensing
\* set, so that the lines emitted always number the calls made.
EveryCallLogs == [][ReturnedCallStep => outcome'.printed = LogTag(call')]_vars

----------------------------------------------------------------------------
(* The interactive prompt *)

\* the step is an instrumented call that asked the operator
PromptStep == interactive' = interactive /\ outcome'.prompted

\* C19: the console prompt is reached only by a sensing read made with
\* interactive mode on of an argument tuple the device holds no entry for:
\* with an entry, scalar, list or exhausted list, a read does not prompt
\* whatever the flag, and with interactive mode off no read prompts.
PromptOnlyWhenInteractiveAndUnscripted ==
    [][PromptStep => (ReadStep /\ interactive /\ ~HeldBefore)]_vars

\* with interactive mode on, a read of a used-up list has returned None
\* without asking the operator
ExhaustedReadWhileInteractive ==
    /\ interactive
    /\ ReadOfScripted
    /\ Scripted.set.kind = "list"
    /\ Scripted.set.v # <<>>
    /\ Scripted.reads = Len(Scripted.set.v) + 1
    /\ tables[call.dev][call.func.name][call.key] = List(<<>>)
    /\ outcome.val = NoneVal
    /\ ~outcome.prompted

----------------------------------------------------------------------------
(* Concurrent reads *)

\* the values the reads of entry e have returned so far, in order
RECURSIVE DeliveredOf(_, _)
DeliveredOf(e, delivered) ==
    IF delivered = <<>> THEN <<>>
    ELSE LET r == Head(delivered)
             rest == DeliveredOf(e, Tail(delivered))
         IN  IF <<r.dev, r.op, r.key>> = e THEN <<r.val>> \o rest ELSE rest

\* C20: when the main flow and a thread read the same operation with the
\* same argument tuple on a device holding a scripted list of n values, in
\* every interleaving no value is returned to two reads, and the first n
\* reads return every value of the list, none skipped.
EachValueDeliveredOnce ==
    \A d \in Sonars, op \in SenseOpNames : \A key \in DOMAIN script[d][op] :
        LET vals == script[d][op][key].set.v
            got == DeliveredOf(<<d, op, key>>, flows.delivered)
        IN  /\ \A i, j \in 1..Len(got) :
                  (i # j /\ got[i] # NoneVal) => got[i] # got[j]
            /\ Len(got) >= Len(vals) =>
                  {got[i] : i \in 1..Len(vals)} = {Scalar(vals[i]) : i \in 1..Len(vals)}

----------------------------------------------------------------------------
(* Unit checks *)

\* C4: in every state of the sonar, Sonar.distance read with a unit outside
\* {MM, INCHES} fails with an assertion failure, and with MM or INCHES it
\* does not.
SonarDistanceRejectsOtherUnits ==
    (call.kind = "sense" /\ call.func = Sonar_distance /\ call.set = NoneVal) =>
        IF DictGet(call.key, "unit") \in {"MM", "INCHES"}
        THEN outcome.exc # "AssertionError"
        ELSE outcome.kind = "raise" /\ outcome.exc = "AssertionError"

\* the unit argument of a turn_for call
TurnForUnit == IF Len(call.given) >= 3 THEN call.given[3] ELSE "DEGREES"

\* C5: DriveTrain.turn_for with a unit other than DEGREES fails with an
\* assertion failure instead of returning an action event; with DEGREES,
\* given or by default, it returns the action event.
TurnForRejectsOtherUnits ==
    (call.kind = "act" /\ call.func = DriveTrain_turn_for
        /\ Len(call.given) < Len(DriveTrain_turn_for.args)) =>
        IF TurnForUnit = "DEGREES"
        THEN outcome.kind = "return" /\ outcome.val.kind = "event"
        ELSE outcome.kind = "raise" /\ outcome.exc = "AssertionError"

----------------------------------------------------------------------------
(* Action events *)

\* the arguments of the most recent call, self first
GivenArgs == <<call.dev>> \o call.given

\* the trailing parameters the call omits all have declared defaults
OmitsOnlyDefaults ==
    /\ Len(GivenArgs) <= Len(call.func.args)
    /\ Len(call.func.args) - Len(GivenArgs) <= Len(call.func.defaults)

\* the declared default of the i-th parameter
DeclaredDefault(func, i) ==
    func.defaults[i - (Len(func.args) - Len(func.defaults))]

\* C6: an actuation call that supplies the first k arguments and omits only
\* parameters with defaults returns (qualified name, mapping), the mapping
\* having exactly the declared parameter names as keys, the first k bound to
\* the supplied arguments and each omitted one to its own declared default.
ActArgsDictComplete ==
    (call.kind = "act" /\ OmitsOnlyDefaults) =>
        /\ outcome.kind = "return"
        /\ outcome.val.kind = "event"
        /\ outcome.val.v[1] = call.func.qualname
        /\ LET args_dict == outcome.val.v[2]
               names == call.func.args
           IN  /\ Len(args_dict) = Len(names)
               /\ {args_dict[i][1] : i \in 1..Len(args_dict)}
                    = {names[i] : i \in 1..Len(names)}
               /\ \A i \in 1..Len(names) :
                    DictGet(args_dict, names[i]) =
                        IF i <= Len(GivenArgs) THEN GivenArgs[i]
                        ELSE DeclaredDefault(call.func, i)

\* drive_for(FORWARD, 300) has returned unit: MM and wait: True
DriveForDefaultsFilled ==
    /\ call.kind = "act"
    /\ call.func = DriveTrain_drive_for
    /\ call.given = <<"FORWARD", "300">>
    /\ outcome.kind = "return"
    /\ DictGet(outcome.val.v[2], "unit") = "MM"
    /\ DictGet(outcome.val.v[2], "wait") = "True"

----------------------------------------------------------------------------
(* DriveTrain setters *)

\* the most recent call is a call of setter, with every parameter given or
\* defaulted, that returned its event
SetterReturned(setter) ==
    /\ call.kind = "act"
    /\ call.func = setter
    /\ OmitsOnlyDefaults
    /\ outcome.kind = "return"

\* the value the returned event binds to a parameter
EventArg(name) == DictGet(outcome.val.v[2], name)

\* C11: after set_drive_velocity(v, u) the drivetrain's stored drive velocity
\* for u is v, after set_turn_velocity(v, u) its stored turn velocity for u is
\* v, and after set_stopping(m) its stopping_mode is m, until the next call of
\* the same setter.
SettersPersist ==
    /\ SetterReturned(DriveTrain_set_drive_velocity) =>
          LET stored == fields[call.dev].drive_velocities
          IN  /\ EventArg("unit") \in DOMAIN stored
              /\ stored[EventArg("unit")] = EventArg("velocity")
    /\ SetterReturned(DriveTrain_set_turn_velocity) =>
          LET stored == fields[call.dev].turn_velocities
          IN  /\ EventArg("unit") \in DOMAIN stored
              /\ stored[EventArg("unit")] = EventArg("velocity")
    /\ SetterReturned(DriveTrain_set_stopping) =>
          fields[call.dev].stopping_mode = EventArg("mode")

----------------------------------------------------------------------------
(* Grading verdicts *)

\* a call of check_submission_str has ended
Graded == pc = "idle" /\ verdict.kind # "none"

\* C3: check_submission_str returns None when the test routine returns a
\* truthy result, '*** INCORRECT ***' when it returns a falsy one, and the
\* stringified exception when the sandboxed execution raises.
VerdictMatchesSubmission ==
    (Graded /\ verdict.kind = "return") =>
        verdict.val = CASE verdict.sub.kind = "true" -> "None"
                           [] verdict.sub.kind = "false" -> "*** INCORRECT ***"
                           [] OTHER -> verdict.sub.msg

\* C8: after every completed call of check_submission_str, however the run
\* ended, the temporary file of the submission is gone, and none is left.
TempFileRemoved ==
    /\ pc \in {"executed", "idle"} => f_name \notin tmpfiles
    /\ pc = "idle" => tmpfiles = {}

\* a grading whose sandboxed execution raised has ended, its file written before
RaisingSubmissionGraded ==
    /\ Graded
    /\ verdict.sub.kind = "raise"
    /\ f_name \in TmpNames
    /\ tmpfiles = {}

\* C9: no exception caused by running a submission escapes
\* check_submission_str: every call returns a verdict, None or a message.
NoExceptionEscapes == Graded => verdict.kind = "return"

\* how check_submission_str ends for a submission graded first, by a grader
\* that has graded nothing yet
FirstVerdict(sub) ==
    return_complaint_str(safe_exec(sub, Unbound).globals, sub)

\* C17: the verdict of a grading depends on the submission and the grader
\* script alone: after any sequence of earlier gradings, passed, failed or
\* raised, a submission gets the verdict it gets when graded first.
GradingsIsolated == Graded => verdict = FirstVerdict(verdict.sub)

\* C16: after __call__ has finished, whether the grading harness (local run
\* or jailed-grading entry point) returned or raised, the copy _submission.py
\* next to the grader script has been removed.
SubmissionCopyRemoved ==
    (~harness.running /\ harness.ended # "none") => ~harness.copied

----------------------------------------------------------------------------
(* Grader construction *)

\* the top-level assignments to grader of a script
GraderAssigns(body) ==
    {i \in 1..Len(body) : body[i].kind = "Assign" /\ body[i].target = "grader"}

\* the script assigns grader once, by a call with exactly one positional
\* argument that is a lambda
WellFormedScript(body) ==
    \E i \in GraderAssigns(body) :
        /\ GraderAssigns(body) = {i}
        /\ body[i].value = "Call"
        /\ body[i].args = <<"Lambda">>

\* the script does not assign grader by such a call at all
MalformedScript(body) ==
    \A i \in GraderAssigns(body) :
        ~(body[i].value = "Call" /\ body[i].args = <<"Lambda">>)

\* C13: construction succeeds, the test routine bound at the end of the
\* stored tree, when the script assigns grader by a call with exactly one
\* positional argument, a lambda; for every script without such an
\* assignment it fails with the MalformedGraderScript assertion failure.
ConstructionChecksScript ==
    construction.pc = "done" =>
        /\ WellFormedScript(construction.script) =>
              /\ construction.result.kind = "return"
              /\ construction.result.module =
                    Append(construction.script, TestFuncBinding)
        /\ MalformedScript(construction.script) =>
              /\ construction.result.kind = "raise"
              /\ construction.result.exc = "AssertionError"

----------------------------------------------------------------------------
(* Device identity *)

\* C7: for each device kind, two instances with identical configuration
\* fields compare equal and their hashes are computed and identical; two
\* instances that differ in a configuration field compare unequal.
EqualDevicesEqualHashes ==
    /\ compared.op = "eq" =>
          /\ dev_a = dev_b => compared.eq
          /\ (dev_a.kind = dev_b.kind /\ dev_a # dev_b) => ~compared.eq
    /\ (compared.op = "hash" /\ dev_a = dev_b) =>
          /\ compared.hash_a.kind = "return"
          /\ compared.hash_b.kind = "return"
          /\ compared.hash_a.val = compared.hash_b.val

----------------------------------------------------------------------------
(* wait_for *)

\* func() never returns the value waited for
NeverMatches ==
    \A i \in 1..Len(waiting.func) : waiting.func[i] # waiting.value

\* C10: wait_for polls func(): it returns True once func() returns value,
\* False if the timeout elapses before any poll matches, and with no timeout
\* and a func that never returns value it never returns.
WaitForPollsUntilMatch ==
    waiting.pc = "returned" =>
        /\ waiting.polls >= 1
        /\ waiting.func[1] = waiting.value => waiting.ret = "True"
        /\ (NeverMatches /\ waiting.timeout # <<>>) => waiting.ret = "False"
        /\ ~(NeverMatches /\ waiting.timeout = <<>>)

====
